---- MODULE Spec2Model ----
(***************************************************************************)
(* Model of VimWeb: the normal-mode key interpreter of content.js (key     *)
(* buffer, expiry timer, single-key and multi-key commands, cached scroll  *)
(* settings) and the hint engine VimHint (label generation, input          *)
(* resolution).  JavaScript strings are TLA+ strings; `null` timer handles *)
(* are 0 (setTimeout only returns positive handles).                       *)
(***************************************************************************)
EXTENDS Integers, Sequences, FiniteSets, TLC

\* ------------------------------------------------------------------------
\* Bounds of the model
\* ------------------------------------------------------------------------

\* Largest timer handle the host hands out (setTimeout calls per behaviour).
MaxTimerId == 3

\* Longest key buffer (in characters) the model lets pushKey build.
MaxBufLen == 6

\* ------------------------------------------------------------------------
\* content.js: state
\* ------------------------------------------------------------------------

VARIABLES
  keyBuffer,      \* content.js: let keyBuffer = ""
  bufferTimer,    \* content.js: let bufferTimer = null   (0 = null)
  scrollSettings, \* content.js: let scrollSettings = { value: 15, unit: '%' }
  settingsLoaded, \* whether the storage.sync.get callback has run
  timers,         \* host: handles of the setTimeout callbacks still pending
  nextTimerId,    \* host: the next handle setTimeout returns
  cmds,           \* host: page commands issued by the last event, in order
  lastEvent       \* the last event delivered and how its handler ended

vimVars == <<keyBuffer, bufferTimer, scrollSettings, settingsLoaded, timers,
             nextTimerId, cmds, lastEvent>>

BUFFER_TIMEOUT == 400

NullTimer == 0

\* JavaScript `undefined` / a missing property, as a settings value.
Undefined == [kind |-> "undefined"]

Policy(v, u) == [kind |-> "object", value |-> v, unit |-> u]

DefaultScrollSettings == Policy(15, "%")

\* Values the settings store can deliver for the key scrollStep: well-formed
\* policies, a policy the options page would refuse (value 0), and nothing.
StoredValues ==
  { Policy(15, "%"), Policy(50, "%"), Policy(100, "px"), Policy(0, "%"),
    Undefined }

\* JavaScript truthiness of a delivered settings value.
Truthy(v) == v.kind # "undefined"

\* Viewport sizes the host may report (window.innerHeight / innerWidth).
Viewports == { [innerHeight |-> 1000, innerWidth |-> 2000],
               [innerHeight |-> 800, innerWidth |-> 1200] }

\* e.key values delivered by the host.  "x" stands for any printable key
\* with no command; "Shift" for a named (multi-character) key.
Keys == {" ", "q", "Q", "j", "k", "h", "l", "G", "g", "x", "Shift"}

\* Event targets: no target, a plain element, form controls, contenteditable.
NoTarget == [tagName |-> "", isContentEditable |-> FALSE, isNull |-> TRUE]

Element(tag, ce) == [tagName |-> tag, isContentEditable |-> ce, isNull |-> FALSE]

Targets == { NoTarget, Element("BODY", FALSE), Element("INPUT", FALSE),
             Element("TEXTAREA", FALSE), Element("SELECT", FALSE),
             Element("DIV", TRUE) }

\* Modifier states of a keydown: none, shift alone, and each hard modifier.
Mods(meta, ctrl, alt, shift) ==
  [metaKey |-> meta, ctrlKey |-> ctrl, altKey |-> alt, shiftKey |-> shift]

Modifiers == { Mods(FALSE, FALSE, FALSE, FALSE), Mods(FALSE, FALSE, FALSE, TRUE),
               Mods(TRUE, FALSE, FALSE, FALSE), Mods(FALSE, TRUE, FALSE, FALSE),
               Mods(FALSE, FALSE, TRUE, FALSE), Mods(FALSE, TRUE, FALSE, TRUE) }

KeyEvent(k, t, m) ==
  [key |-> k, target |-> t, metaKey |-> m.metaKey, ctrlKey |-> m.ctrlKey,
   altKey |-> m.altKey, shiftKey |-> m.shiftKey]

\* The keys delivered on every target and with every modifier state: one
\* that scrolls at once, one that is buffered, and G (typed with shift).
VariedKeys == {"j", "g", "G"}

\* Keydown events: every key on the page body without modifier; the varied
\* keys on every target without modifier, and on the page body and on a
\* text input with every modifier state.
KeyEvents ==
  { KeyEvent(k, Element("BODY", FALSE), Mods(FALSE, FALSE, FALSE, FALSE)) :
      k \in Keys }
  \cup { KeyEvent(k, t, Mods(FALSE, FALSE, FALSE, FALSE)) :
           k \in VariedKeys, t \in Targets }
  \cup { KeyEvent(k, t, m) : k \in VariedKeys,
                            t \in {Element("BODY", FALSE), Element("INPUT", FALSE)},
                            m \in Modifiers }

\* What the page looks like when a key arrives: whether an element lies
\* under the mouse cursor (Space) and the viewport size (j/k/h/l).
DefaultViewport == [innerHeight |-> 1000, innerWidth |-> 2000]

Envs(key) ==
  IF key = " "
  THEN { [hasElement |-> b, vp |-> DefaultViewport] : b \in BOOLEAN }
  ELSE IF key \in {"j", "k", "h", "l"}
  THEN { [hasElement |-> FALSE, vp |-> v] : v \in Viewports }
  ELSE { [hasElement |-> FALSE, vp |-> DefaultViewport] }

\* A page command: the host function called and its scroll offsets.
Cmd(op, top, left) == [op |-> op, top |-> top, left |-> left]

\* ------------------------------------------------------------------------
\* content.js: helpers
\* ------------------------------------------------------------------------

\* isEditable that forgets the select control.
isEditableNoSelect(el) ==
  IF el.isNull THEN FALSE
  ELSE el.isContentEditable \/ el.tagName \in {"INPUT", "TEXTAREA"}

isEditable(el) ==
  IF el.isNull THEN FALSE
  ELSE el.isContentEditable \/ el.tagName \in {"INPUT", "TEXTAREA", "SELECT"}

\* performScroll throws a TypeError when scrollSettings is undefined and a
\* vertical direction makes it read scrollSettings.unit.
performScrollThrows(dirY, dirX) == dirY # 0 /\ scrollSettings.kind = "undefined"

\* performScrollTop that takes the value as a factor, not as a percentage.
performScrollTopNoPercent(dirY, vp) ==
  IF dirY # 0
  THEN IF scrollSettings.unit = "%"
       THEN vp.innerHeight * scrollSettings.value * dirY
       ELSE scrollSettings.value * dirY
  ELSE 0

performScrollTop(dirY, vp) ==
  IF dirY # 0
  THEN IF scrollSettings.unit = "%"
       THEN ((vp.innerHeight * scrollSettings.value) \div 100) * dirY
       ELSE scrollSettings.value * dirY
  ELSE 0

performScrollLeft(dirX, vp) ==
  IF dirX # 0 THEN ((vp.innerWidth * 15) \div 100) * dirX ELSE 0

\* The commands performScroll issues (none when it throws).
performScroll(dirY, dirX, vp) ==
  IF performScrollThrows(dirY, dirX) THEN << >>
  ELSE << Cmd("scrollBy", performScrollTop(dirY, vp), performScrollLeft(dirX, vp)) >>

scrollToTop == << Cmd("scrollToTop", 0, 0) >>

scrollToBottom == << Cmd("scrollToBottom", 0, 0) >>

\* clickAtCursor: focus and click the element under the cursor, if any.
clickAtCursor(hasElement) ==
  IF hasElement THEN << Cmd("focus", 0, 0), Cmd("click", 0, 0) >> ELSE << >>

historyBack == << Cmd("history.back", 0, 0) >>

\* resetBuffer without clearTimeout / bufferTimer = null.
resetBufferKeepTimer(st) == [st EXCEPT !.keyBuffer = ""]

\* resetBuffer without keyBuffer = "".
resetBufferKeepBuffer(st) ==
  [ st EXCEPT !.bufferTimer = NullTimer,
              !.timers = IF st.bufferTimer # NullTimer
                         THEN st.timers \ {st.bufferTimer} ELSE st.timers ]

\* resetBuffer: the buffer, the handle and the pending set afterwards.
resetBuffer(st) ==
  [ keyBuffer |-> "",
    bufferTimer |-> NullTimer,
    timers |-> IF st.bufferTimer # NullTimer
               THEN st.timers \ {st.bufferTimer} ELSE st.timers,
    nextTimerId |-> st.nextTimerId ]

\* pushKey without the clearTimeout of the previous timer.
pushKeyNoCancel(st, key) ==
  [ keyBuffer |-> st.keyBuffer \o key,
    bufferTimer |-> st.nextTimerId,
    timers |-> st.timers \cup {st.nextTimerId},
    nextTimerId |-> st.nextTimerId + 1 ]

\* pushKey without the setTimeout that arms the new timer.
pushKeyNoArm(st, key) ==
  [ keyBuffer |-> st.keyBuffer \o key,
    bufferTimer |-> NullTimer,
    timers |-> (IF st.bufferTimer # NullTimer
                THEN st.timers \ {st.bufferTimer} ELSE st.timers),
    nextTimerId |-> st.nextTimerId ]

\* pushKey: append the key, cancel the previous timer, arm a new one.
pushKey(st, key) ==
  [ keyBuffer |-> st.keyBuffer \o key,
    bufferTimer |-> st.nextTimerId,
    timers |-> ((IF st.bufferTimer # NullTimer
                 THEN st.timers \ {st.bufferTimer} ELSE st.timers)
                \cup {st.nextTimerId}),
    nextTimerId |-> st.nextTimerId + 1 ]

BufState == [ keyBuffer |-> keyBuffer, bufferTimer |-> bufferTimer,
              timers |-> timers, nextTimerId |-> nextTimerId ]

SetBufState(st) ==
  /\ keyBuffer' = st.keyBuffer
  /\ bufferTimer' = st.bufferTimer
  /\ timers' = st.timers
  /\ nextTimerId' = st.nextTimerId

\* The event record of a callback that is not a keydown.
NoKeyEvent == KeyEvent("", NoTarget, Mods(FALSE, FALSE, FALSE, FALSE))

\* What happened to the last event.
Event(type, key, route, before, prevented, threw) ==
  [ type |-> type, key |-> key, route |-> route, before |-> before,
    defaultPrevented |-> prevented, threw |-> threw,
    e |-> NoKeyEvent, vp |-> DefaultViewport ]

\* What happened to the last keydown: the event e itself (target and
\* modifiers) and the viewport it found, besides what Event records.
KeyDownSeen(e, vp, route, before, prevented, threw) ==
  [ Event("keydown", e.key, route, before, prevented, threw)
      EXCEPT !.e = e, !.vp = vp ]

\* ------------------------------------------------------------------------
\* content.js: handleVimKey and the keydown listener
\* ------------------------------------------------------------------------

Outcome(st, c, prevented, threw) ==
  [ st |-> st, cmds |-> c, defaultPrevented |-> prevented, threw |-> threw ]

\* A scroll key: preventDefault, then performScroll (which may throw).
scrollKey(st, dirY, dirX, env) ==
  Outcome(st, performScroll(dirY, dirX, env.vp), TRUE,
          performScrollThrows(dirY, dirX))

\* handleVimKey whose G branch scrolls to the bottom without resetBuffer().
handleVimKeyGNoReset(st, key, env) ==
  IF key = " " THEN Outcome(st, clickAtCursor(env.hasElement), TRUE, FALSE)
  ELSE IF key = "Q" \/ key = "q" THEN Outcome(st, historyBack, TRUE, FALSE)
  ELSE IF key = "j" THEN scrollKey(st, 1, 0, env)
  ELSE IF key = "k" THEN scrollKey(st, -1, 0, env)
  ELSE IF key = "h" THEN scrollKey(st, 0, -1, env)
  ELSE IF key = "l" THEN scrollKey(st, 0, 1, env)
  ELSE IF key = "G" THEN Outcome(st, scrollToBottom, TRUE, FALSE)
  ELSE LET pushed == pushKey(st, key) IN
       IF pushed.keyBuffer = "gg"
       THEN Outcome(resetBuffer(pushed), scrollToTop, TRUE, FALSE)
       ELSE Outcome(pushed, << >>, FALSE, FALSE)

\* keyBuffer.endsWith("gg")
endsWithGG(buf) ==
  Len(buf) >= 2 /\ SubSeq(buf, Len(buf) - 1, Len(buf)) = "gg"

\* handleVimKey that matches "gg" at the end of the buffer, not the whole.
handleVimKeySuffixMatch(st, key, env) ==
  IF key = " " THEN Outcome(st, clickAtCursor(env.hasElement), TRUE, FALSE)
  ELSE IF key = "Q" \/ key = "q" THEN Outcome(st, historyBack, TRUE, FALSE)
  ELSE IF key = "j" THEN scrollKey(st, 1, 0, env)
  ELSE IF key = "k" THEN scrollKey(st, -1, 0, env)
  ELSE IF key = "h" THEN scrollKey(st, 0, -1, env)
  ELSE IF key = "l" THEN scrollKey(st, 0, 1, env)
  ELSE IF key = "G" THEN Outcome(resetBuffer(st), scrollToBottom, TRUE, FALSE)
  ELSE LET pushed == pushKey(st, key) IN
       IF endsWithGG(pushed.keyBuffer)
       THEN Outcome(resetBuffer(pushed), scrollToTop, TRUE, FALSE)
       ELSE Outcome(pushed, << >>, FALSE, FALSE)

\* handleVimKey(e): the buffer state, the commands issued, and whether the
\* event's default was prevented, for key e.key arriving in state st.
handleVimKey(st, key, env) ==
  IF key = " " THEN Outcome(st, clickAtCursor(env.hasElement), TRUE, FALSE)
  ELSE IF key = "Q" \/ key = "q" THEN Outcome(st, historyBack, TRUE, FALSE)
  ELSE IF key = "j" THEN scrollKey(st, 1, 0, env)
  ELSE IF key = "k" THEN scrollKey(st, -1, 0, env)
  ELSE IF key = "h" THEN scrollKey(st, 0, -1, env)
  ELSE IF key = "l" THEN scrollKey(st, 0, 1, env)
  ELSE IF key = "G" THEN Outcome(resetBuffer(st), scrollToBottom, TRUE, FALSE)
  ELSE LET pushed == pushKey(st, key) IN
       IF pushed.keyBuffer = "gg"
       THEN Outcome(resetBuffer(pushed), scrollToTop, TRUE, FALSE)
       ELSE Outcome(pushed, << >>, FALSE, FALSE)

\* Keys that handleVimKey answers before it reaches pushKey.
ImmediateKeys == {" ", "Q", "q", "j", "k", "h", "l", "G"}

\* The listener lets the event through untouched.
NotIntercepted(e) ==
  isEditable(e.target) \/ e.metaKey \/ e.ctrlKey \/ e.altKey

\* document.addEventListener("keydown", ...)
KeyDown ==
  \E e \in KeyEvents :
    IF NotIntercepted(e)
    THEN /\ lastEvent' = KeyDownSeen(e, DefaultViewport, "ignored", keyBuffer,
                                      FALSE, FALSE)
         /\ cmds' = << >>
         /\ UNCHANGED <<keyBuffer, bufferTimer, timers, nextTimerId,
                        scrollSettings, settingsLoaded>>
    ELSE \E env \in Envs(e.key) :
         /\ e.key \notin ImmediateKeys =>
              /\ nextTimerId <= MaxTimerId
              /\ Len(keyBuffer) + Len(e.key) <= MaxBufLen
         /\ LET out == handleVimKey(BufState, e.key, env) IN
              /\ SetBufState(out.st)
              /\ cmds' = out.cmds
              /\ lastEvent' = KeyDownSeen(e, env.vp, "vim", keyBuffer,
                                          out.defaultPrevented, out.threw)
         /\ UNCHANGED <<scrollSettings, settingsLoaded>>

\* The host runs the callback of a pending timer: setTimeout(resetBuffer, 400).
TimerFire ==
  \E id \in timers :
    /\ SetBufState(resetBuffer([BufState EXCEPT !.timers = timers \ {id}]))
    /\ cmds' = << >>
    /\ lastEvent' = Event("timer", "", "timer", keyBuffer, FALSE, FALSE)
    /\ UNCHANGED <<scrollSettings, settingsLoaded>>

\* chrome.storage.sync.get(['scrollStep'], callback): runs once.
SettingsGet ==
  /\ ~settingsLoaded
  /\ \E v \in StoredValues :
       scrollSettings' = IF Truthy(v) THEN v ELSE scrollSettings
  /\ settingsLoaded' = TRUE
  /\ cmds' = << >>
  /\ lastEvent' = Event("settings.get", "", "settings", keyBuffer, FALSE, FALSE)
  /\ UNCHANGED <<keyBuffer, bufferTimer, timers, nextTimerId>>

\* chrome.storage.onChanged listener.
SettingsChanged ==
  \E area \in {"sync", "local"}, hasScrollStep \in BOOLEAN, v \in StoredValues :
    /\ scrollSettings' = IF area = "sync" /\ hasScrollStep THEN v ELSE scrollSettings
    /\ cmds' = << >>
    /\ lastEvent' = Event("settings.changed", "", "settings", keyBuffer, FALSE, FALSE)
    /\ UNCHANGED <<keyBuffer, bufferTimer, timers, nextTimerId, settingsLoaded>>

InitVim ==
  /\ keyBuffer = ""
  /\ bufferTimer = NullTimer
  /\ scrollSettings = DefaultScrollSettings
  /\ settingsLoaded = FALSE
  /\ timers = {}
  /\ nextTimerId = 1
  /\ cmds = << >>
  /\ lastEvent = Event("init", "", "none", "", FALSE, FALSE)

\* ------------------------------------------------------------------------
\* VimHint (hint engine): state
\* ------------------------------------------------------------------------

VARIABLES
  hints,        \* VimHint.hints: the candidates, in document order
  container,    \* VimHint.container: "null" or the overlay "div"
  inputBuffer,  \* VimHint.inputBuffer
  overlays,     \* host: overlay containers attached to document.body
  hintCmds,     \* host: element calls made by the last operation, in order
  lastHintOp    \* the last hint-engine call and how it ended

hintVars == <<hints, container, inputBuffer, overlays, hintCmds, lastHintOp>>

chars == "abcdefghijklmnopqrstuvwxyz"

\* chars[i] for a 0-based index i.
CharAt(i) == SubSeq(chars, i + 1, i + 1)

\* labels[index] past the end of the array: JavaScript `undefined`.  No
\* typed input starts with "<", so it never equals or prefixes a label.
UndefinedLabel == "<undefined>"

\* ElCmd: a call on a page element (focus, click).
ElCmd(op, el) == [op |-> op, element |-> el]

\* String.prototype.startsWith
startsWith(str, prefix) ==
  /\ Len(prefix) <= Len(str)
  /\ SubSeq(str, 1, Len(prefix)) = prefix

\* String.prototype.toLowerCase on the keys the model types.
upperChars == "ABCDEFGHIJKLMNOPQRSTUVWXYZ"

lowerChar(c) ==
  IF \E i \in 1..Len(upperChars) : SubSeq(upperChars, i, i) = c
  THEN LET i == CHOOSE i \in 1..Len(upperChars) : SubSeq(upperChars, i, i) = c
       IN SubSeq(chars, i, i)
  ELSE c

RECURSIVE toLowerCase(_)
toLowerCase(s) ==
  IF Len(s) = 0 THEN ""
  ELSE lowerChar(SubSeq(s, 1, 1)) \o toLowerCase(SubSeq(s, 2, Len(s)))

\* ------------------------------------------------------------------------
\* VimHint.generateLabels
\* ------------------------------------------------------------------------

\* label = chars[index[0]] + ... + chars[index[length-1]]
RECURSIVE labelOf(_, _)
labelOf(index, i) ==
  IF i > Len(index) THEN "" ELSE CharAt(index[i]) \o labelOf(index, i + 1)

\* The carry loop without the move to the next position after a wrap.
carryNoPropagate(index, p) ==
  IF p < 1 THEN [index |-> index, p |-> p]
  ELSE IF index[p] + 1 < Len(chars)
       THEN [index |-> [index EXCEPT ![p] = index[p] + 1], p |-> p]
       ELSE [index |-> [index EXCEPT ![p] = 0], p |-> p]

\* The carry loop: increments index from position p (1-based here) leftwards;
\* the resulting p is 0 when the counter overflowed (p < 0 in the source).
RECURSIVE carry(_, _)
carry(index, p) ==
  IF p < 1 THEN [index |-> index, p |-> p]
  ELSE IF index[p] + 1 < Len(chars)
       THEN [index |-> [index EXCEPT ![p] = index[p] + 1], p |-> p]
       ELSE carry([index EXCEPT ![p] = 0], p - 1)

\* One iteration of the while (true) loop of tryGenerate on the loop state
\* (result, index); done is set when the iteration returns or breaks.
tryGenerateStep(s, count) ==
  IF s.done THEN s
  ELSE LET pushed == Append(s.result, labelOf(s.index, 1)) IN
       IF Len(pushed) >= count
       THEN [result |-> pushed, index |-> s.index, done |-> TRUE]
       ELSE LET c == carry(s.index, Len(s.index)) IN
            [result |-> pushed, index |-> c.index, done |-> c.p < 1]

\* k iterations of the loop, split in halves to keep the evaluation shallow
\* (the one-element sets bind each intermediate loop state to its value).
RECURSIVE tryGenerateLoop(_, _, _)
tryGenerateLoop(s, k, count) ==
  IF k = 0 THEN s
  ELSE IF k = 1 THEN tryGenerateStep(s, count)
  ELSE CHOOSE r \in { tryGenerateLoop(half, k - (k \div 2), count) :
                       half \in { tryGenerateLoop(s, k \div 2, count) } } : TRUE

\* new Array(length).fill(0)
RECURSIVE zeros(_)
zeros(length) == IF length = 0 THEN << >> ELSE Append(zeros(length - 1), 0)

\* Every iteration pushes one label and the loop returns once the result
\* holds count labels, so it runs at most max(count, 1) times.
tryGenerate(length, count) ==
  tryGenerateLoop([result |-> << >>, index |-> zeros(length), done |-> FALSE],
                  IF count > 1 THEN count ELSE 1, count).result

\* chars.split('').slice(0, count)
sliceChars(count) == [i \in 1..count |-> CharAt(i - 1)]

\* generateLabels with the single-letter test off by one (count < 26).
generateLabelsEarlyPairs(count) ==
  IF count < 26 THEN sliceChars(count) ELSE tryGenerate(2, count)

generateLabels(count) ==
  IF count <= 26 THEN sliceChars(count) ELSE tryGenerate(2, count)

\* A caller of generateLabels on its own: the count passed, the array
\* returned by the last call, and the number of calls made.
VARIABLES labelCount, labelsOut, labelCalls

labelVars == <<labelCount, labelsOut, labelCalls>>

\* Largest count passed to generateLabels on its own.
MaxCount == 700

\* Calls of generateLabels made on one count.
MaxCalls == 2

GenerateLabels ==
  /\ labelCalls < MaxCalls
  /\ labelsOut' = generateLabels(labelCount)
  /\ labelCalls' = labelCalls + 1
  /\ UNCHANGED labelCount

InitLabelCaller ==
  /\ labelCount = 0
  /\ labelsOut = << >>
  /\ labelCalls = 0

\* ------------------------------------------------------------------------
\* VimHint: operations
\* ------------------------------------------------------------------------

\* Element counts the page may present to getVisibleElements: the small
\* cases, both sides of the 26 and 676 boundaries, and counts past the
\* two-letter label space.
LabelSpace == Len(chars) * Len(chars)

\* Small element counts explored exhaustively (0..MaxSmall).
MaxSmall == 3

\* How many counts beyond the label space are explored.
MaxExtra == 1

ElementCounts ==
  (0..MaxSmall) \cup {Len(chars), Len(chars) + 1, 30, LabelSpace}
  \cup { LabelSpace + k : k \in 1..MaxExtra }

\* Longest hint input buffer the model lets handleInput build.
MaxInput == 2

\* Keys typed in hint mode.
HintKeys == {"a", "b", "z", "A", "1"}

\* getVisibleElements(): n elements, named 1..n in document order.
getVisibleElements(n) == [i \in 1..n |-> i]

\* labels[index] (0-based index), undefined past the end.
labelAt(labels, index) ==
  IF index + 1 <= Len(labels) THEN labels[index + 1] ELSE UndefinedLabel

\* A candidate; display and matched are the hint node's style.display and
\* its 'matched' class ("" is the stylesheet default: shown).
Hint(el, label) ==
  [element |-> el, label |-> label, display |-> "", matched |-> FALSE]

HintState == [ hints |-> hints, container |-> container,
               inputBuffer |-> inputBuffer, overlays |-> overlays ]

SetHintState(st) ==
  /\ hints' = st.hints
  /\ container' = st.container
  /\ inputBuffer' = st.inputBuffer
  /\ overlays' = st.overlays

removeHints(st) ==
  [ hints |-> << >>,
    container |-> "null",
    inputBuffer |-> "",
    overlays |-> IF st.container # "null" THEN st.overlays - 1 ELSE st.overlays ]

\* createHints without the removeHints() that clears the previous overlay.
createHintsNoRemove(st, n) ==
  LET elements == getVisibleElements(n)
      labels == generateLabels(Len(elements))
  IN IF Len(elements) = 0 THEN [st EXCEPT !.inputBuffer = ""]
     ELSE [ hints |-> [i \in 1..Len(elements) |->
                        Hint(elements[i], labelAt(labels, i - 1))],
            container |-> "div",
            inputBuffer |-> "",
            overlays |-> st.overlays + 1 ]

\* createHints without the early return on an empty enumeration.
createHintsNoEarlyReturn(st, n) ==
  LET cleared == removeHints(st)
      elements == getVisibleElements(n)
      labels == generateLabels(Len(elements))
  IN [ hints |-> [i \in 1..Len(elements) |->
                    Hint(elements[i], labelAt(labels, i - 1))],
       container |-> "div",
       inputBuffer |-> "",
       overlays |-> cleared.overlays + 1 ]

createHints(st, n) ==
  LET cleared == removeHints(st)
      elements == getVisibleElements(n)
      labels == generateLabels(Len(elements))
  IN IF Len(elements) = 0 THEN cleared
     ELSE [ hints |-> [i \in 1..Len(elements) |->
                        Hint(elements[i], labelAt(labels, i - 1))],
            container |-> "div",
            inputBuffer |-> "",
            overlays |-> cleared.overlays + 1 ]

\* h.label.startsWith(...) throws a TypeError on a candidate without label.
startsWithThrows(hs) == \E i \in 1..Len(hs) : hs[i].label = UndefinedLabel

\* this.hints.filter(h => h.label.startsWith(buffer)), as candidate indices.
matchedHints(hs, buffer) ==
  SelectSeq([i \in 1..Len(hs) |-> i], LAMBDA i : startsWith(hs[i].label, buffer))

updateHintsVisibility(hs, buffer) ==
  [i \in 1..Len(hs) |->
     IF startsWith(hs[i].label, buffer)
     THEN [hs[i] EXCEPT !.display = "block", !.matched = (hs[i].label = buffer)]
     ELSE [hs[i] EXCEPT !.display = "none"]]

activateElement(st, el) ==
  [ st |-> removeHints(st), cmds |-> << ElCmd("focus", el), ElCmd("click", el) >> ]

HintOutcome(st, c, ret, threw) ==
  [ st |-> st, cmds |-> c, ret |-> ret, threw |-> threw ]

\* handleInput whose no-match branch hides the hints but keeps the buffer.
handleInputNoReset(st, key) ==
  LET buffer == st.inputBuffer \o toLowerCase(key)
      appended == [st EXCEPT !.inputBuffer = buffer]
  IN IF startsWithThrows(st.hints)
     THEN HintOutcome(appended, << >>, FALSE, TRUE)
     ELSE LET matched == matchedHints(st.hints, buffer) IN
          IF Len(matched) = 1 /\ st.hints[matched[1]].label = buffer
          THEN LET act == activateElement(appended, st.hints[matched[1]].element)
               IN HintOutcome(act.st, act.cmds, TRUE, FALSE)
          ELSE HintOutcome([appended EXCEPT
                              !.hints = updateHintsVisibility(st.hints, buffer)],
                           << >>, FALSE, FALSE)

\* handleInput(key): the engine afterwards, the element calls made, the
\* value returned, and whether the call threw (then nothing is returned).
handleInput(st, key) ==
  LET buffer == st.inputBuffer \o toLowerCase(key)
      appended == [st EXCEPT !.inputBuffer = buffer]
  IN IF startsWithThrows(st.hints)
     THEN HintOutcome(appended, << >>, FALSE, TRUE)
     ELSE LET matched == matchedHints(st.hints, buffer) IN
          IF Len(matched) = 0
          THEN HintOutcome([appended EXCEPT
                              !.inputBuffer = "",
                              !.hints = updateHintsVisibility(st.hints, "")],
                           << >>, FALSE, FALSE)
          ELSE IF Len(matched) = 1 /\ st.hints[matched[1]].label = buffer
          THEN LET act == activateElement(appended, st.hints[matched[1]].element)
               IN HintOutcome(act.st, act.cmds, TRUE, FALSE)
          ELSE HintOutcome([appended EXCEPT
                              !.hints = updateHintsVisibility(st.hints, buffer)],
                           << >>, FALSE, FALSE)

\* What the last hint-engine call was: its name, the key typed, the number
\* of candidates (for createHints: of elements enumerated), the input buffer
\* it found, whether an overlay was up when it was called, the value it
\* returned and whether it threw.
HintOp(op, key, n, before, active, ret, threw) ==
  [ op |-> op, key |-> key, n |-> n, before |-> before, active |-> active,
    ret |-> ret, threw |-> threw ]

\* createHints() on a page whose number of visible elements is in counts.
CreateHintsOn(counts) ==
  \E n \in counts :
    /\ SetHintState(createHints(HintState, n))
    /\ hintCmds' = << >>
    /\ lastHintOp' = HintOp("createHints", "", n, inputBuffer,
                            container # "null", FALSE, FALSE)

CreateHints == CreateHintsOn(ElementCounts)

HandleInput ==
  \E key \in HintKeys :
    /\ Len(inputBuffer) + Len(key) <= MaxInput
    /\ LET out == handleInput(HintState, key) IN
         /\ SetHintState(out.st)
         /\ hintCmds' = out.cmds
         /\ lastHintOp' = HintOp("handleInput", key, Len(hints), inputBuffer,
                                 container # "null", out.ret, out.threw)

RemoveHints ==
  /\ SetHintState(removeHints(HintState))
  /\ hintCmds' = << >>
  /\ lastHintOp' = HintOp("removeHints", "", Len(hints), inputBuffer,
                           container # "null", FALSE, FALSE)

InitHint ==
  /\ hints = << >>
  /\ container = "null"
  /\ inputBuffer = ""
  /\ overlays = 0
  /\ hintCmds = << >>
  /\ lastHintOp = HintOp("init", "", 0, "", FALSE, FALSE, FALSE)

\* ------------------------------------------------------------------------
\* Specifications
\* ------------------------------------------------------------------------

vars == <<vimVars, hintVars, labelVars>>

Init == InitVim /\ InitHint /\ InitLabelCaller

NextVim ==
  \/ KeyDown /\ UNCHANGED <<hintVars, labelVars>>
  \/ TimerFire /\ UNCHANGED <<hintVars, labelVars>>
  \/ SettingsGet /\ UNCHANGED <<hintVars, labelVars>>
  \/ SettingsChanged /\ UNCHANGED <<hintVars, labelVars>>

\* Normal mode: the keydown listener, the expiry timer, the settings cache.
SpecVim == Init /\ [][NextVim]_vars

NextHint ==
  \/ CreateHints /\ UNCHANGED <<vimVars, labelVars>>
  \/ HandleInput /\ UNCHANGED <<vimVars, labelVars>>
  \/ RemoveHints /\ UNCHANGED <<vimVars, labelVars>>

\* Hint mode: the hint engine driven by its three entry points.
SpecHint == Init /\ [][NextHint]_vars

\* Largest number of visible elements on the pages of SpecDispatch.
MaxPage == 1

NextDispatch ==
  \/ KeyDown /\ UNCHANGED <<hintVars, labelVars>>
  \/ TimerFire /\ UNCHANGED <<hintVars, labelVars>>
  \/ CreateHintsOn(0..MaxPage) /\ UNCHANGED <<vimVars, labelVars>>
  \/ HandleInput /\ UNCHANGED <<vimVars, labelVars>>
  \/ RemoveHints /\ UNCHANGED <<vimVars, labelVars>>

\* Both modes on one page: the keydown listener and its timer next to a
\* hint engine that is entered, typed into and left on small pages.
SpecDispatch == Init /\ [][NextDispatch]_vars

InitLabels ==
  /\ InitVim /\ InitHint
  /\ labelCount \in 0..MaxCount
  /\ labelsOut = << >>
  /\ labelCalls = 0

NextLabels == GenerateLabels /\ UNCHANGED <<vimVars, hintVars>>

\* generateLabels as a pure function: every count 0..MaxCount, called twice.
SpecLabels == InitLabels /\ [][NextLabels]_vars

\* ------------------------------------------------------------------------
\* Properties of normal mode (checked under SpecVim)
\* ------------------------------------------------------------------------

\* The last event was a keydown that reached handleVimKey.
HandledKey == lastEvent.type = "keydown" /\ lastEvent.route = "vim"

\* Space, q/Q and j/k/h/l.
SingleKeys == {" ", "q", "Q", "j", "k", "h", "l"}

\* C1: after a single-key command (Space, q/Q, j/k/h/l) is handled, whatever
\* the key buffer held before, the command has fired (the event's default is
\* prevented) and the key buffer is empty.
C1_SingleKeyLeavesBufferEmpty ==
  (HandledKey /\ lastEvent.key \in SingleKeys)
    => (lastEvent.defaultPrevented /\ keyBuffer = "")

\* C2: when appending a key makes the key buffer exactly "gg", scroll-to-top
\* is the one command executed, and afterwards the key buffer is empty and
\* no expiry timer is armed.
C2_GGScrollsTopAndResets ==
  (HandledKey /\ lastEvent.key \notin ImmediateKeys
     /\ lastEvent.before \o lastEvent.key = "gg")
    => /\ cmds = scrollToTop
       /\ lastEvent.defaultPrevented
       /\ keyBuffer = ""
       /\ bufferTimer = NullTimer
       /\ timers = {}

C2_Witness ==
  /\ HandledKey /\ lastEvent.key = "g" /\ lastEvent.before = "g"
  /\ cmds = scrollToTop /\ keyBuffer = ""

\* C3: an expiry only fires on a non-empty key buffer; it empties the buffer,
\* executes no command, and leaves no timer pending, so no further expiry
\* can fire until pushKey arms a new timer.
C3_ExpiryClearsOnceSilently ==
  [][ lastEvent'.type = "timer"
        => /\ keyBuffer # ""
           /\ keyBuffer' = ""
           /\ cmds' = << >>
           /\ bufferTimer' = NullTimer
           /\ timers' = {} ]_vars

C3_Witness ==
  /\ lastEvent.type = "timer" /\ lastEvent.before = "g"
  /\ keyBuffer = "" /\ cmds = << >> /\ timers = {}

\* C9: in every reachable state a non-empty key buffer has its expiry timer
\* armed (the handle is set and pending), and an empty key buffer has none:
\* whatever clears the buffer clears the timer in the same step.
C9_BufferNonEmptyIffTimerArmed ==
  /\ keyBuffer # "" => (bufferTimer # NullTimer /\ bufferTimer \in timers)
  /\ keyBuffer = "" => (bufferTimer = NullTimer /\ timers = {})

C9_Witness ==
  /\ HandledKey /\ keyBuffer = "xg"
  /\ bufferTimer # NullTimer /\ bufferTimer \in timers

\* C10: at most one expiry timer is pending at any time, and it is the one
\* armed by the most recent buffered keystroke (the handle in bufferTimer).
C10_AtMostOneTimerPending ==
  /\ Cardinality(timers) <= 1
  /\ \A id \in timers : id = bufferTimer /\ id = nextTimerId - 1

C10_Witness ==
  /\ HandledKey /\ lastEvent.before = "x" /\ keyBuffer = "xg"
  /\ timers = {bufferTimer} /\ bufferTimer = 2

\* ------------------------------------------------------------------------
\* Properties of the hint engine (checked under SpecHint and SpecLabels)
\* ------------------------------------------------------------------------

\* The hint engine is Idle: no container, no candidates, no input.
Idle == container = "null" /\ hints = << >> /\ inputBuffer = ""

\* Candidate i carries a label (labels[index] was defined).
Labelled(hs, i) == hs[i].label # UndefinedLabel

\* C4: when a typed character makes the input buffer equal to the label of a
\* candidate, handleInput focuses and clicks exactly that candidate's element
\* and nothing else, removes the overlay, leaves the engine Idle and returns
\* true.
C4_FullLabelActivatesThatCandidate ==
  [][ \A i \in 1..Len(hints) :
        ( /\ lastHintOp'.op = "handleInput"
          /\ Labelled(hints, i)
          /\ hints[i].label = inputBuffer \o toLowerCase(lastHintOp'.key) )
        => /\ hintCmds' = << ElCmd("focus", hints[i].element),
                             ElCmd("click", hints[i].element) >>
           /\ Idle'
           /\ overlays' = 0
           /\ lastHintOp'.ret
           /\ ~ lastHintOp'.threw ]_vars

\* C5: when a typed character makes the input buffer a prefix of no
\* candidate's label, handleInput empties the input buffer, keeps the
\* candidates (elements and labels) and the overlay, shows every candidate,
\* activates nothing and returns false.
C5_NoMatchResetsBufferOnly ==
  [][ ( /\ lastHintOp'.op = "handleInput"
        /\ \A i \in 1..Len(hints) :
             Labelled(hints, i) =>
               ~ startsWith(hints[i].label,
                            inputBuffer \o toLowerCase(lastHintOp'.key)) )
      => /\ inputBuffer' = ""
         /\ Len(hints') = Len(hints)
         /\ \A i \in 1..Len(hints) :
              /\ hints'[i].element = hints[i].element
              /\ hints'[i].label = hints[i].label
              /\ hints'[i].display = "block"
         /\ container' = container
         /\ overlays' = overlays
         /\ hintCmds' = << >>
         /\ ~ lastHintOp'.ret
         /\ ~ lastHintOp'.threw ]_vars

\* The label generateLabels is specified to give candidate i of n (1-based):
\* the i-th letter for n <= 26, the i-th two-letter string otherwise.
ExpectedLabel(n, i) ==
  IF n <= 26 THEN CharAt(i - 1)
  ELSE CharAt((i - 1) \div 26) \o CharAt((i - 1) % 26)

\* C6: for 1 <= n <= 676, generateLabels(n) returns exactly n labels, the
\* first n letters a, b, c, ... when n <= 26 and the first n two-letter
\* strings aa, ab, ..., az, ba, ... otherwise, on every call.
C6_LabelsByEnumerationOrder ==
  (labelCalls > 0 /\ 1 <= labelCount /\ labelCount <= 676)
    => /\ Len(labelsOut) = labelCount
       /\ \A i \in 1..labelCount :
            /\ labelsOut[i] = ExpectedLabel(labelCount, i)
            /\ Len(labelsOut[i]) = (IF labelCount <= 26 THEN 1 ELSE 2)

C6_Witness ==
  /\ labelCalls = MaxCalls /\ labelCount = 30
  /\ Len(labelsOut) = 30 /\ labelsOut[1] = "aa" /\ labelsOut[30] = "bd"

\* C7: with more elements than the label space holds, the first 676
\* candidates carry the labels aa..zz, the others carry none, and no
\* handleInput call throws.
C7_ExhaustionIsGraceful ==
  (container # "null" /\ Len(hints) > 676)
    => /\ \A i \in 1..Len(hints) :
            IF i <= 676
            THEN hints[i].label = ExpectedLabel(Len(hints), i)
            ELSE ~ Labelled(hints, i)
       /\ lastHintOp.op = "handleInput" => ~ lastHintOp.threw

\* C8: within one activation the labels the candidates carry are pairwise
\* distinct and of one length (1 or 2), so none is a strict prefix of
\* another.
C8_LabelsDistinctUniformLength ==
  LET labelled == { i \in 1..Len(hints) : Labelled(hints, i) }
      labelSet == { hints[i].label : i \in labelled }
  IN /\ Cardinality(labelSet) = Cardinality(labelled)
     /\ \A l \in labelSet :
          /\ Len(l) \in {1, 2}
          /\ \A m \in { hints[i].label : i \in labelled \cap {1} } :
               Len(l) = Len(m)
          /\ \A k \in 1..(Len(l) - 1) : SubSeq(l, 1, k) \notin labelSet

C8_Witness ==
  /\ container # "null" /\ Len(hints) = 30
  /\ hints[1].label = "aa" /\ hints[27].label = "ba"

\* C11: after every hint-engine operation the input buffer is empty or a
\* prefix of the label of at least one live candidate (so it is empty when
\* there are no candidates).
C11_InputBufferIsLivePrefix ==
  \/ inputBuffer = ""
  \/ \E i \in 1..Len(hints) :
       Labelled(hints, i) /\ startsWith(hints[i].label, inputBuffer)

\* The candidates are exactly the n elements just enumerated, in document
\* order, each with the label generateLabels gives its position.
CandidatesAre(n) ==
  /\ Len(hints) = n
  /\ \A i \in 1..n :
       /\ hints[i].element = i
       /\ hints[i].label = (IF i <= 676 THEN ExpectedLabel(n, i)
                            ELSE UndefinedLabel)

\* C12 as stated: createHints called while an overlay is up leaves exactly
\* one overlay container, the candidates and labels of the newly enumerated
\* elements only, and an empty input buffer.
C12_ReentryLeavesExactlyOneOverlay ==
  (lastHintOp.op = "createHints" /\ lastHintOp.active)
    => /\ overlays = 1
       /\ container = "div"
       /\ CandidatesAre(lastHintOp.n)
       /\ inputBuffer = ""

\* C12 amended: createHints called while an overlay is up removes it, so at
\* most one overlay container exists afterwards: exactly one when the new
\* enumeration is non-empty, none when it is empty; the candidates and
\* labels are those of the newly enumerated elements only and the input
\* buffer is empty.
C12_ReentryLeavesAtMostOneOverlay ==
  (lastHintOp.op = "createHints" /\ lastHintOp.active)
    => /\ overlays = (IF lastHintOp.n = 0 THEN 0 ELSE 1)
       /\ container = (IF lastHintOp.n = 0 THEN "null" ELSE "div")
       /\ CandidatesAre(lastHintOp.n)
       /\ inputBuffer = ""

C12_Witness ==
  /\ lastHintOp.op = "createHints" /\ lastHintOp.active
  /\ lastHintOp.before = "a" /\ lastHintOp.n = 2
  /\ overlays = 1 /\ Len(hints) = 2 /\ inputBuffer = ""

\* C13: createHints on an enumeration of zero elements does not activate
\* hint mode: no overlay container exists or is attached, there are no
\* candidates, the input buffer is empty, and the call does not throw.
C13_NoElementsNoActivation ==
  (lastHintOp.op = "createHints" /\ lastHintOp.n = 0)
    => /\ Idle
       /\ overlays = 0
       /\ ~ lastHintOp.threw

C13_Witness ==
  /\ lastHintOp.op = "createHints" /\ lastHintOp.n = 0
  /\ ~ lastHintOp.active /\ Idle /\ overlays = 0

\* C20: with at most 676 candidates, after every handleInput call that
\* returns false the input buffer is strictly shorter than the label length:
\* empty in single-letter mode (at most 26 candidates), at most one
\* character in two-letter mode.
C20_BufferShorterThanLabel ==
  (lastHintOp.op = "handleInput" /\ ~ lastHintOp.ret /\ ~ lastHintOp.threw
     /\ lastHintOp.n <= LabelSpace)
    => IF lastHintOp.n <= Len(chars)
       THEN inputBuffer = ""
       ELSE Len(inputBuffer) <= 1

C20_Witness ==
  /\ lastHintOp.op = "handleInput" /\ ~ lastHintOp.ret /\ ~ lastHintOp.threw
  /\ Len(hints) = LabelSpace /\ lastHintOp.before = "" /\ inputBuffer = "z"

\* C14: G scrolls to the bottom at once whatever the key buffer holds; it is
\* not appended, and it leaves the buffer empty with no expiry timer armed.
C14_GScrollsBottomAndResets ==
  (HandledKey /\ lastEvent.key = "G")
    => /\ cmds = scrollToBottom
       /\ lastEvent.defaultPrevented
       /\ keyBuffer = ""
       /\ bufferTimer = NullTimer
       /\ timers = {}

C14_Witness ==
  /\ HandledKey /\ lastEvent.key = "G" /\ lastEvent.before = "xg"
  /\ lastEvent.e.shiftKey
  /\ cmds = scrollToBottom /\ keyBuffer = "" /\ timers = {}

\* The target is an input, textarea, select or contenteditable element.
EditableTarget(t) ==
  /\ ~ t.isNull
  /\ t.isContentEditable \/ t.tagName \in {"INPUT", "TEXTAREA", "SELECT"}

\* C15: a keydown whose target is editable, or that carries ctrl, alt or
\* meta, is not consumed: no command, default not prevented, key buffer and
\* timer unchanged.  A keydown with no modifier or shift alone on a
\* non-editable target goes to the normal-mode interpreter.
C15_EditableAndModifiedKeysPassThrough ==
  [][ lastEvent'.type = "keydown"
        => IF \/ EditableTarget(lastEvent'.e.target)
              \/ lastEvent'.e.ctrlKey
              \/ lastEvent'.e.altKey
              \/ lastEvent'.e.metaKey
           THEN /\ lastEvent'.route = "ignored"
                /\ cmds' = << >>
                /\ ~ lastEvent'.defaultPrevented
                /\ UNCHANGED <<keyBuffer, bufferTimer, timers, nextTimerId>>
           ELSE lastEvent'.route = "vim" ]_vars

C15_Witness ==
  /\ lastEvent.type = "keydown" /\ lastEvent.route = "ignored"
  /\ lastEvent.key = "g" /\ lastEvent.before = "g"
  /\ lastEvent.e.target = Element("SELECT", FALSE)
  /\ keyBuffer = "g" /\ bufferTimer # NullTimer /\ cmds = << >>

\* C18: with a cached policy {value: v, unit: u}, j on a viewport of height
\* H requests one scroll with vertical delta H*v/100 when u is "%" and v
\* when u is pixels, and horizontal delta zero; k requests the same
\* magnitude with the opposite sign.
C18_VerticalScrollDelta ==
  (HandledKey /\ lastEvent.key \in {"j", "k"} /\ scrollSettings.kind = "object")
    => LET dir == IF lastEvent.key = "j" THEN 1 ELSE -1
           H == lastEvent.vp.innerHeight
           v == scrollSettings.value
       IN /\ Len(cmds) = 1
          /\ cmds[1].op = "scrollBy"
          /\ cmds[1].left = 0
          /\ IF scrollSettings.unit = "%"
             THEN cmds[1].top * 100 = H * v * dir
             ELSE cmds[1].top = v * dir

C18_Witness ==
  /\ HandledKey /\ lastEvent.key = "j"
  /\ scrollSettings = Policy(15, "%") /\ lastEvent.vp.innerHeight = 1000
  /\ cmds = << Cmd("scrollBy", 150, 0) >>

\* C19: a buffered key is kept whether or not it can lead to a command, and
\* later keys accumulate behind it; scroll-to-top runs only in a step where
\* the buffer, with the key appended, is exactly "gg" (so x, g, g leaves the
\* buffer "xgg" and runs nothing).
C19_ExactMatchNoEarlyRejection ==
  /\ (HandledKey /\ lastEvent.key \notin ImmediateKeys
        /\ lastEvent.before \o lastEvent.key # "gg")
       => /\ keyBuffer = lastEvent.before \o lastEvent.key
          /\ cmds = << >>
  /\ cmds = scrollToTop
       => /\ HandledKey
          /\ lastEvent.before \o lastEvent.key = "gg"

C19_Witness ==
  /\ HandledKey /\ lastEvent.key = "g" /\ lastEvent.before = "xg"
  /\ keyBuffer = "xgg" /\ cmds = << >> /\ bufferTimer # NullTimer

\* C16: whatever the settings-load callback and the change notifications
\* delivered, the cached scroll policy is an object with value > 0, and
\* every scroll command (j/k/h/l) executes without error.
C16_ScrollPolicyWellFormed ==
  /\ scrollSettings.kind = "object"
  /\ scrollSettings.value > 0
  /\ (HandledKey /\ lastEvent.key \in {"j", "k", "h", "l"})
       => ~ lastEvent.threw

\* C17: every keydown the listener handles goes to the active mode: while
\* the hint overlay is up it is handled by handleInput, runs no normal-mode
\* command and leaves the key buffer alone; while the engine is Idle it is
\* handled by the normal-mode interpreter.
C17_KeysGoToActiveMode ==
  [][ (vimVars' # vimVars /\ lastEvent'.type = "keydown"
         /\ lastEvent'.route # "ignored")
        => IF container # "null"
           THEN /\ lastHintOp'.op = "handleInput"
                /\ lastHintOp'.key = lastEvent'.key
                /\ cmds' = << >>
                /\ keyBuffer' = keyBuffer
           ELSE lastEvent'.route = "vim" ]_vars

====
